---- MODULE Spec2Model ----
(***************************************************************************)
(* SnubaTSDB (src/src/sentry/tsdb/snuba.py): the query normalisation and   *)
(* result reshaping of one call of get_data and of the facade operations   *)
(* built on it.  One call is: build the request, at most one round trip to *)
(* the backend executor (snuba.query), then zerofill / trim / unnest and   *)
(* the facade's final transform.                                           *)
(***************************************************************************)
EXTENDS Integers, Sequences, FiniteSets, TLC

VARIABLES pc, call, built, backendCalls, response, ret, error, steps,
          registry, callerConditions

vars == <<pc, call, built, backendCalls, response, ret, error, steps,
          registry, callerConditions>>

----------------------------------------------------------------------------
(* Python values.  None is a string where the other values are strings, and *)
(* a record of its own where they are sequences or trees.                   *)

NULL == "None"
None == [none |-> TRUE]
Some(x) == [some |-> x]

Range(s) == {s[i] : i \in DOMAIN s}

(* sorted(...) of a set of integers. *)
RECURSIVE Sorted(_)
Sorted(S) ==
    IF S = {} THEN <<>>
    ELSE LET x == CHOOSE y \in S : \A z \in S : y <= z
         IN <<x>> \o Sorted(S \ {x})

RECURSIVE Reverse(_)
Reverse(s) == IF s = <<>> THEN <<>> ELSE Reverse(Tail(s)) \o <<Head(s)>>

(* The elements of a sequence in the order of their first occurrence. *)
RECURSIVE Distinct(_)
Distinct(s) ==
    IF s = <<>> THEN <<>>
    ELSE LET front == Distinct(SubSeq(s, 1, Len(s) - 1))
             last == s[Len(s)]
         IN IF last \in Range(front) THEN front ELSE Append(front, last)

(* The values of a result: an integer, a string, a list, None, a dict, or a *)
(* raised exception.  A dict keeps the insertion order of its keys; its     *)
(* keys are integers (group values) and, in the rows the executor returns   *)
(* when it projects more than one column, the string "aggregate", which is  *)
(* the first key of a dict that has it.                                     *)
IntLeaf(n) == [int |-> n]
StrLeaf(s) == [str |-> s]
ListLeaf(s) == [list |-> s]
Err(e) == [err |-> e]
Dict(aggregate, order, values) ==
    [aggregate |-> aggregate, order |-> order, map |-> values]

(* {k1: v1, k2: v2, ...} from the items <<k1, v1>>, <<k2, v2>>, ... *)
Map(items) ==
    LET keys == [i \in DOMAIN items |-> items[i][1]]
    IN Dict(None, Distinct(keys),
            [k \in Range(keys) |->
               items[CHOOSE i \in DOMAIN items :
                        /\ items[i][1] = k
                        /\ \A j \in DOMAIN items : items[j][1] = k => j <= i][2]])
(* {"aggregate": v} *)
Row(v) == Dict(Some(v), <<>>, <<>>)
EmptyMap == Map(<<>>)

IsMap(n) == "map" \in DOMAIN n
IsInt(n) == DOMAIN n = {"int"}
IsStr(n) == DOMAIN n = {"str"}
IsList(n) == DOMAIN n = {"list"}
IsErr(n) == DOMAIN n = {"err"}
IsNone(n) == DOMAIN n = {"none"}
(* A dict with the key "aggregate"; a dict without it. *)
IsRow(n) == IsMap(n) /\ n.aggregate # None
IsGroupMap(n) == IsMap(n) /\ n.aggregate = None

(* Python truthiness of a value. *)
Truthy(n) ==
    IF IsInt(n) THEN n.int # 0
    ELSE IF IsStr(n) THEN n.str # ""
    ELSE IF IsList(n) THEN n.list # <<>>
    ELSE IF IsMap(n) THEN n.aggregate # None \/ n.order # <<>>
    ELSE FALSE

(* list(d.keys()), list(d.values()) and list(d.items()) of a dict. *)
dict_keys(d) ==
    (IF d.aggregate # None THEN <<StrLeaf("aggregate")>> ELSE <<>>)
        \o [i \in DOMAIN d.order |-> IntLeaf(d.order[i])]
dict_values(d) ==
    (IF d.aggregate # None THEN <<d.aggregate.some>> ELSE <<>>)
        \o [i \in DOMAIN d.order |-> d.map[d.order[i]]]
dict_items(d) ==
    LET keys == dict_keys(d)
        values == dict_values(d)
    IN [i \in DOMAIN keys |-> <<keys[i], values[i]>>]

(* d[k] = v for an integer k: a new key goes to the end. *)
dict_set(d, k, v) ==
    [d EXCEPT !.order = IF k \in DOMAIN d.map THEN @ ELSE Append(@, k),
              !.map = (k :> v) @@ @]

(* The first exception among the values in sequence, None if there is none. *)
first_error(values) ==
    LET bad == {i \in DOMAIN values : IsErr(values[i])}
    IN IF bad = {} THEN None
       ELSE values[CHOOSE i \in bad : \A j \in bad : i <= j]

(* The position in a list of the index k, 0 when k is out of range. *)
list_position(list, k) ==
    IF 0 <= k /\ k < Len(list) THEN k + 1
    ELSE IF k < 0 /\ -k <= Len(list) THEN Len(list) + k + 1
    ELSE 0

(* A set of integers as CPython keeps it: an open-addressed hash table of   *)
(* 8 slots or more, a slot found by the probe sequence of set_add_entry,    *)
(* the table grown when it is three fifths full, to hold four times its     *)
(* keys, or twice once there are more than 50000.  list(set) reads the      *)
(* table slot by slot.  A slot is None when empty and Some(key) when used.  *)
set_new == [mask |-> 7, fill |-> 0, table |-> [i \in 0..7 |-> None]]

(* hash(n) of an integer n below 2^61 - 1 in size: n, and -2 for -1. *)
long_hash(n) == IF n = -1 THEN -2 ELSE n

(* The hash as the unsigned 64-bit number the probe sequence shifts: the    *)
(* number 2^high + low when high is not -1, low otherwise.  A hash below 0  *)
(* is 2^64 + hash.                                                           *)
perturb_of(hash) == [high |-> IF hash < 0 THEN 64 ELSE -1, low |-> hash]

(* perturb >>= 5 *)
perturb_shift(perturb) ==
    IF perturb.high = -1 THEN [high |-> -1, low |-> perturb.low \div 32]
    ELSE IF perturb.high >= 5
    THEN [high |-> perturb.high - 5, low |-> perturb.low \div 32]
    ELSE [high |-> -1, low |-> (2 ^ perturb.high + perturb.low) \div 32]

(* perturb & mask, for a mask below 2^30. *)
perturb_masked(perturb, mask) ==
    IF perturb.high = -1 \/ perturb.high >= 30 THEN perturb.low % (mask + 1)
    ELSE (2 ^ perturb.high + perturb.low) % (mask + 1)

(* The slot of a key: the first slot of its probe sequence that is empty or *)
(* holds the key.                                                           *)
RECURSIVE set_lookkey(_, _, _, _)
set_lookkey(so, key, i, perturb) ==
    LET probes == IF i + 9 <= so.mask THEN 9 ELSE 0
        hits == {j \in i..(i + probes) : so.table[j] = None \/ so.table[j] = Some(key)}
    IN IF hits # {} THEN CHOOSE j \in hits : \A h \in hits : j <= h
       ELSE set_lookkey(so, key,
                        (i * 5 + 1 + perturb_masked(perturb_shift(perturb), so.mask))
                            % (so.mask + 1),
                        perturb_shift(perturb))

(* The slot of a key, from the start of its probe sequence. *)
set_slot(so, key) ==
    set_lookkey(so, key, long_hash(key) % (so.mask + 1), perturb_of(long_hash(key)))

set_insert_clean(so, key) ==
    [so EXCEPT !.table[set_slot(so, key)] = Some(key), !.fill = @ + 1]

RECURSIVE set_insert_all(_, _, _, _)
set_insert_all(so, table, i, last) ==
    IF i > last THEN so
    ELSE set_insert_all(IF table[i] = None THEN so
                        ELSE set_insert_clean(so, table[i].some),
                        table, i + 1, last)

RECURSIVE set_newsize(_, _)
set_newsize(size, minused) ==
    IF size <= minused THEN set_newsize(2 * size, minused) ELSE size

set_table_resize(so, minused) ==
    LET size == set_newsize(8, minused)
    IN set_insert_all([mask |-> size - 1, fill |-> 0,
                       table |-> [i \in 0..(size - 1) |-> None]],
                      so.table, 0, so.mask)

set_add_entry(so, key) ==
    LET j == set_slot(so, key)
    IN IF so.table[j] = Some(key) THEN so
       ELSE LET added == [so EXCEPT !.table[j] = Some(key), !.fill = @ + 1]
            IN IF added.fill * 5 < added.mask * 3 THEN added
               ELSE set_table_resize(added, IF added.fill > 50000 THEN added.fill * 2
                                            ELSE added.fill * 4)

(* set(v) for a list v. *)
RECURSIVE set_of(_)
set_of(v) ==
    IF v = <<>> THEN set_new
    ELSE set_add_entry(set_of(SubSeq(v, 1, Len(v) - 1)), v[Len(v)])

RECURSIVE set_add_all(_, _, _, _)
set_add_all(so, table, i, last) ==
    IF i > last THEN so
    ELSE set_add_all(IF table[i] = None THEN so
                     ELSE set_add_entry(so, table[i].some),
                     table, i + 1, last)

(* so |= other *)
set_merge(so, other) ==
    IF other.fill = 0 THEN so
    ELSE LET sized == IF (so.fill + other.fill) * 5 >= so.mask * 3
                      THEN set_table_resize(so, (so.fill + other.fill) * 2)
                      ELSE so
         IN IF sized.fill = 0 /\ sized.mask = other.mask THEN other
            ELSE IF sized.fill = 0
            THEN set_insert_all(sized, other.table, 0, other.mask)
            ELSE set_add_all(sized, other.table, 0, other.mask)

(* set.union(s1, s2, ...): a copy of s1, then each of the others merged in. *)
RECURSIVE set_union(_)
set_union(sets) ==
    IF Len(sets) = 1 THEN set_merge(set_new, sets[1])
    ELSE set_merge(set_union(SubSeq(sets, 1, Len(sets) - 1)), sets[Len(sets)])

(* list(s) *)
set_list(so) ==
    LET slots == Sorted({i \in 0..so.mask : so.table[i] # None})
    IN [i \in DOMAIN slots |-> so.table[slots[i]].some]

----------------------------------------------------------------------------
(* The model registry. *)

events_type_condition == <<"type", "!=", "transaction">>
search_issues_profile_condition == <<"occurrence_type_id", "IN", "PROFILE_TYPES">>
OUTCOMES_CATEGORY_CONDITION == <<"category", "IN", "error_categories">>
outcome_received == <<"outcome", "IN", "TOTAL_RECEIVED_OUTCOMES">>
outcome_rate_limited == <<"outcome", "=", "RATE_LIMITED">>
outcome_filtered == <<"outcome", "=", "FILTERED">>
arrayJoin_group_ids == <<"arrayJoin", "group_ids", "group_id">>

SnubaModelQuerySettings(dataset, groupby, aggregate, conditions, selected_columns) ==
    [dataset |-> dataset, groupby |-> groupby, aggregate |-> aggregate,
     conditions |-> conditions, selected_columns |-> selected_columns]

non_outcomes_query_settings ==
    [ project |->
        SnubaModelQuerySettings("Events", "project_id", NULL, <<events_type_condition>>, <<>>),
      group |->
        SnubaModelQuerySettings("Events", "group_id", NULL, <<events_type_condition>>, <<>>),
      group_performance |->
        SnubaModelQuerySettings("Transactions", "group_id", NULL, <<>>, <<arrayJoin_group_ids>>),
      group_profiling |->
        SnubaModelQuerySettings("IssuePlatform", "group_id", NULL,
                                <<search_issues_profile_condition>>, <<>>),
      release |->
        SnubaModelQuerySettings("Events", "tags[sentry:release]", NULL,
                                <<events_type_condition>>, <<>>),
      users_affected_by_group |->
        SnubaModelQuerySettings("Events", "group_id", "tags[sentry:user]",
                                <<events_type_condition>>, <<>>),
      users_affected_by_perf_group |->
        SnubaModelQuerySettings("Transactions", "group_id", "tags[sentry:user]", <<>>,
                                <<arrayJoin_group_ids>>),
      users_affected_by_profile_group |->
        SnubaModelQuerySettings("IssuePlatform", "group_id", "tags[sentry:user]",
                                <<search_issues_profile_condition>>, <<>>),
      users_affected_by_project |->
        SnubaModelQuerySettings("Events", "project_id", "tags[sentry:user]",
                                <<events_type_condition>>, <<>>),
      frequent_environments_by_group |->
        SnubaModelQuerySettings("Events", "group_id", "environment",
                                <<events_type_condition>>, <<>>),
      frequent_releases_by_group |->
        SnubaModelQuerySettings("Events", "group_id", "tags[sentry:release]",
                                <<events_type_condition>>, <<>>),
      frequent_issues_by_project |->
        SnubaModelQuerySettings("Events", "project_id", "group_id",
                                <<events_type_condition>>, <<>>) ]

(* One entry per reason of FILTER_STAT_KEYS_TO_VALUES; the table itself is   *)
(* outside the sources, one of its entries stands for all of them.           *)
project_filter_model_query_settings ==
    [ project_total_received_legacy_browsers |->
        SnubaModelQuerySettings("Outcomes", "project_id", "quantity",
            << <<"reason", "=", "legacy-browsers">>, outcome_received,
               OUTCOMES_CATEGORY_CONDITION >>, <<>>) ]

outcomes_partial_query_settings ==
    [ organization_total_received |->
        SnubaModelQuerySettings("Outcomes", "org_id", "quantity",
            <<outcome_received, OUTCOMES_CATEGORY_CONDITION>>, <<>>),
      organization_total_rejected |->
        SnubaModelQuerySettings("Outcomes", "org_id", "quantity",
            <<outcome_rate_limited, OUTCOMES_CATEGORY_CONDITION>>, <<>>),
      organization_total_blacklisted |->
        SnubaModelQuerySettings("Outcomes", "org_id", "quantity",
            <<outcome_filtered, OUTCOMES_CATEGORY_CONDITION>>, <<>>),
      project_total_received |->
        SnubaModelQuerySettings("Outcomes", "project_id", "quantity",
            <<outcome_received, OUTCOMES_CATEGORY_CONDITION>>, <<>>),
      project_total_rejected |->
        SnubaModelQuerySettings("Outcomes", "project_id", "quantity",
            <<outcome_rate_limited, OUTCOMES_CATEGORY_CONDITION>>, <<>>),
      project_total_blacklisted |->
        SnubaModelQuerySettings("Outcomes", "project_id", "quantity",
            <<outcome_filtered, OUTCOMES_CATEGORY_CONDITION>>, <<>>),
      key_total_received |->
        SnubaModelQuerySettings("Outcomes", "key_id", "quantity",
            <<outcome_received, OUTCOMES_CATEGORY_CONDITION>>, <<>>),
      key_total_rejected |->
        SnubaModelQuerySettings("Outcomes", "key_id", "quantity",
            <<outcome_rate_limited, OUTCOMES_CATEGORY_CONDITION>>, <<>>),
      key_total_blacklisted |->
        SnubaModelQuerySettings("Outcomes", "key_id", "quantity",
            <<outcome_filtered, OUTCOMES_CATEGORY_CONDITION>>, <<>>) ]

model_query_settings ==
    project_filter_model_query_settings @@ outcomes_partial_query_settings
        @@ non_outcomes_query_settings

(* The lookup gone wrong: an unknown model gets the settings of a default. *)
registry_get_with_default(model) ==
    IF model \in DOMAIN registry THEN Some(registry[model])
    ELSE Some(registry["project"])

(* self.model_query_settings.get(model): the class attribute as it is now,   *)
(* the variable registry.                                                    *)
registry_get(model) ==
    IF model \in DOMAIN registry THEN Some(registry[model])
    ELSE None

key_total_models == {"key_total_received", "key_total_blacklisted", "key_total_rejected"}
manual_group_on_time_models == {"group_profiling", "users_affected_by_profile_group"}
group_on_time_column_alias == "time_t"
aggregated_as == "aggregate"

----------------------------------------------------------------------------
(* The keys argument: a flat list, a {primary: [secondary, ...]} mapping in *)
(* the order its keys were inserted, or a value that is neither (a          *)
(* non-iterable scalar, a one-shot iterator).                               *)

FlatKeys(s) == [flat |-> s]
(* {p1: s1, p2: s2, ...} from the items <<p1, s1>>, <<p2, s2>>, ... *)
NestedKeys(items) ==
    LET keys == [i \in DOMAIN items |-> items[i][1]]
    IN [order |-> Distinct(keys),
        nested |-> [k \in Range(keys) |->
                      items[CHOOSE i \in DOMAIN items :
                               /\ items[i][1] = k
                               /\ \A j \in DOMAIN items : items[j][1] = k => j <= i][2]]]
ScalarKeys(n) == [scalar |-> n]
IterKeys(s) == [iter |-> s]

IsFlat(k) == DOMAIN k = {"flat"}
IsNested(k) == "nested" \in DOMAIN k
IsScalar(k) == DOMAIN k = {"scalar"}
IsIter(k) == DOMAIN k = {"iter"}

(* `rk in keys`, `len(keys)` and `if keys:` on a list or a dict. *)
KeyIn(rk, keys) ==
    IF IsNested(keys) THEN rk \in DOMAIN keys.nested ELSE rk \in Range(keys.flat)
KeyLen(keys) ==
    IF IsNested(keys) THEN Len(keys.order) ELSE Len(keys.flat)
(* The guard gone wrong: `if keys is not None:`. *)
KeysTruthy_not_none(keys) == TRUE
KeysTruthy(keys) == KeyLen(keys) > 0

(* keys = list(set(map(lambda x: int(x), keys))): iterating a dict yields    *)
(* its keys; a scalar is not iterable.  The keys of the model are integers,  *)
(* on which int() changes nothing; the list is the set's, in its order.      *)
key_total_keys(keys) ==
    IF IsScalar(keys) THEN Err("TypeError")
    ELSE IF IsNested(keys) THEN FlatKeys(set_list(set_of(keys.order)))
    ELSE IF IsIter(keys) THEN FlatKeys(set_list(set_of(keys.iter)))
    ELSE FlatKeys(set_list(set_of(keys.flat)))

(* The union gone wrong: the values of the first primary key only. *)
union_of_values_first_only(items) == set_of(items.nested[items.order[1]])

(* The set.union of set(v) over the values v of a mapping that has a key. *)
union_of_values(items) ==
    set_union([i \in DOMAIN items.order |-> set_of(items.nested[items.order[i]])])

flatten_keys(items) ==
    IF IsNested(items)
    THEN [primary |-> items.order,
          secondary |-> Some(IF items.order = <<>> THEN <<>>
                             ELSE set_list(union_of_values(items)))]
    ELSE IF IsFlat(items)
    THEN [primary |-> items.flat, secondary |-> None]
    ELSE Err("ValueError")

----------------------------------------------------------------------------
(* The result reshaper.  The code changes the tree in place; the operators  *)
(* give the changed tree, or the exception raised on the way.               *)

(* for k in flat_keys[group]: result[k] = zero, whether or not k is there. *)
RECURSIVE fill_overwriting(_, _, _)
fill_overwriting(result, keys, zero) ==
    IF keys = <<>> THEN result
    ELSE IF IsMap(result)
    THEN fill_overwriting(dict_set(result, Head(keys), zero), Tail(keys), zero)
    ELSE IF IsList(result)
    THEN (IF list_position(result.list, Head(keys)) = 0 THEN Err("IndexError")
          ELSE fill_overwriting(
                   ListLeaf([result.list EXCEPT
                               ![list_position(result.list, Head(keys))] = zero]),
                   Tail(keys), zero))
    ELSE Err("TypeError")

(* for k in flat_keys[group]: if k not in result: result[k] = zero.  On a   *)
(* dict a missing key is appended; on a list the element at index k is      *)
(* replaced unless k is an element; any other value has no `in`.            *)
RECURSIVE fill_missing(_, _, _)
fill_missing(result, keys, zero) ==
    IF keys = <<>> THEN result
    ELSE IF IsMap(result)
    THEN fill_missing(IF Head(keys) \in DOMAIN result.map THEN result
                      ELSE dict_set(result, Head(keys), zero),
                      Tail(keys), zero)
    ELSE IF IsList(result)
    THEN (IF IntLeaf(Head(keys)) \in Range(result.list)
          THEN fill_missing(result, Tail(keys), zero)
          ELSE IF list_position(result.list, Head(keys)) = 0 THEN Err("IndexError")
          ELSE fill_missing(
                   ListLeaf([result.list EXCEPT
                               ![list_position(result.list, Head(keys))] = zero]),
                   Tail(keys), zero))
    ELSE Err("TypeError")

(* The dict d with its values, in the order of its keys, replaced by the    *)
(* values sub; the first exception among them if there is one.              *)
dict_with_values(d, sub) ==
    IF first_error(sub) # None THEN first_error(sub)
    ELSE Dict(IF d.aggregate # None THEN Some(sub[1]) ELSE None,
              d.order,
              [k \in DOMAIN d.map |->
                 sub[(Len(sub) - Len(d.order))
                        + CHOOSE i \in DOMAIN d.order : d.order[i] = k]])

(* The fill gone wrong: `if k not in result` is missing, a required key is   *)
(* set to zero whether or not it is there.                                   *)
RECURSIVE zerofill_overwriting(_, _, _)
zerofill_overwriting_values(filled, subgroups, flat_keys) ==
    IF IsErr(filled) \/ subgroups = <<>> THEN filled
    ELSE IF ~IsMap(filled) THEN Err("AttributeError")
    ELSE dict_with_values(filled,
                          [i \in DOMAIN dict_values(filled) |->
                             zerofill_overwriting(dict_values(filled)[i],
                                                  subgroups, flat_keys)])

zerofill_overwriting(result, groups, flat_keys) ==
    IF Len(groups) = 0 THEN result
    ELSE IF Head(groups) \notin DOMAIN flat_keys THEN Err("KeyError")
    ELSE zerofill_overwriting_values(
             fill_overwriting(result, flat_keys[Head(groups)],
                              IF Len(groups) = 1 THEN IntLeaf(0) ELSE EmptyMap),
             Tail(groups), flat_keys)

(* if subgroups: for v in result.values(): self.zerofill(v, subgroups,      *)
(* flat_keys), on the result as the fill left it; a value that is no dict   *)
(* has no values().                                                         *)
RECURSIVE zerofill(_, _, _)
zerofill_values(filled, subgroups, flat_keys) ==
    IF IsErr(filled) \/ subgroups = <<>> THEN filled
    ELSE IF ~IsMap(filled) THEN Err("AttributeError")
    ELSE dict_with_values(filled,
                          [i \in DOMAIN dict_values(filled) |->
                             zerofill(dict_values(filled)[i], subgroups, flat_keys)])

zerofill(result, groups, flat_keys) ==
    IF Len(groups) = 0 THEN result
    ELSE IF Head(groups) \notin DOMAIN flat_keys THEN Err("KeyError")
    ELSE zerofill_values(
             fill_missing(result, flat_keys[Head(groups)],
                          IF Len(groups) = 1 THEN IntLeaf(0) ELSE EmptyMap),
             Tail(groups), flat_keys)

(* The keys of the dict are visited in their order.  "aggregate" is no key  *)
(* of a key set, so below a group other than "time" it is deleted; a scalar *)
(* key set has no `in`.                                                     *)
RECURSIVE trim(_, _, _)
trim(result, groups, keys) ==
    IF Len(groups) = 0 \/ ~IsMap(result) THEN result
    ELSE IF Head(groups) = "time"
    THEN dict_with_values(result,
                          [i \in DOMAIN dict_values(result) |->
                             trim(dict_values(result)[i], Tail(groups), keys)])
    ELSE IF IsScalar(keys)
    THEN (IF Truthy(result) THEN Err("TypeError") ELSE result)
    ELSE Dict(None,
              SelectSeq(result.order, LAMBDA rk : KeyIn(rk, keys)),
              [rk \in {k \in DOMAIN result.map : KeyIn(k, keys)} |->
                 IF IsNested(keys)
                 THEN trim(result.map[rk], Tail(groups), FlatKeys(keys.nested[rk]))
                 ELSE result.map[rk]])

(* A dict value whose "aggregate" is truthy is replaced by it; any other    *)
(* dict value is unnested in its turn.                                      *)
RECURSIVE unnest(_)
unnest_value(val) ==
    IF IsMap(val)
    THEN (IF val.aggregate # None /\ Truthy(val.aggregate.some)
          THEN val.aggregate.some
          ELSE unnest(val))
    ELSE val

unnest(result) ==
    IF IsMap(result)
    THEN dict_with_values(result,
                          [i \in DOMAIN dict_values(result) |->
                             unnest_value(dict_values(result)[i])])
    ELSE result

(* The second aggregation of a request that groups on time by hand. *)
manual_group_on_time_aggregation(rollup, time_column_alias) ==
    LET rollup_func ==
            IF rollup = 60 THEN "toStartOfMinute"
            ELSE IF rollup = 3600 THEN "toStartOfHour"
            ELSE IF rollup = 3600 * 24 THEN "toDate"
            ELSE NULL
    IN IF rollup_func # NULL
       THEN [fn |-> "toUnixTimestamp", target |-> rollup_func, alias |-> time_column_alias]
       ELSE [fn |-> "multiply", target |-> "intDiv", alias |-> time_column_alias]

----------------------------------------------------------------------------
(* The bucket planner (BaseTSDB, outside the sources): a series of bucket    *)
(* starts covering [start, end) at the resolved rollup, never empty.         *)

SupportedRollups == {10, 3600}

normalize_to_rollup(t, rollup) == t - (t % rollup)

(* The bucket starts t, t + rollup, ... up to the last one below end; one    *)
(* bucket at least.                                                          *)
bucket_series(t, end, rollup) ==
    LET n == IF end - t <= rollup THEN 1 ELSE ((end - t) + rollup - 1) \div rollup
    IN [i \in 1..n |-> t + (i - 1) * rollup]

(* The rollups the planner may resolve a requested rollup to. *)
resolved_rollups(rollup) == IF rollup = None THEN SupportedRollups ELSE {rollup.some}

get_optimal_rollup_series(start, end, rollup) ==
    [rollup |-> rollup,
     series |-> bucket_series(normalize_to_rollup(start, rollup), end, rollup)]

add_jitter_to_series(series, start, rollup, jitter_value) ==
    IF jitter_value = None THEN series
    ELSE [i \in DOMAIN series |-> series[i] + (jitter_value.some % rollup)]

----------------------------------------------------------------------------
(* get_data up to the round trip: the locals it has built when it reaches    *)
(* `if keys:`, or the exception it raised before.  `resolved` is the rollup  *)
(* the planner resolves to.                                                  *)

(* The group-by list gone wrong: group_on_model is not looked at. *)
build_groupby_model_always(settings, ga, manual) ==
    LET g1 == IF settings.groupby # NULL THEN <<settings.groupby>> ELSE <<>>
        g2 == IF ga.group_on_time
              THEN (IF ~manual THEN g1 \o <<"time">>
                    ELSE g1 \o <<group_on_time_column_alias>>)
              ELSE g1
    IN IF ga.aggregation = "count()" /\ settings.aggregate # NULL
       THEN g2 \o <<settings.aggregate>>
       ELSE g2

build_groupby(settings, ga, manual) ==
    LET g1 == IF ga.group_on_model /\ settings.groupby # NULL
              THEN <<settings.groupby>> ELSE <<>>
        g2 == IF ga.group_on_time
              THEN (IF ~manual THEN g1 \o <<"time">>
                    ELSE g1 \o <<group_on_time_column_alias>>)
              ELSE g1
    IN IF ga.aggregation = "count()" /\ settings.aggregate # NULL
       THEN g2 \o <<settings.aggregate>>
       ELSE g2

(* The rewrite gone wrong: count() keeps the aggregate column as its target. *)
build_model_aggregate_kept(settings, ga) == settings.aggregate

build_model_aggregate(settings, ga) ==
    IF ga.aggregation = "count()" /\ settings.aggregate # NULL
    THEN NULL ELSE settings.aggregate

(* dict(zip(columns, flatten_keys(keys))) without the None columns and None  *)
(* key lists, then the environment binding.                                  *)
build_keys_map(settings, flat, environment_ids) ==
    LET zipped == (settings.aggregate :> flat.secondary)
                      @@ (settings.groupby :> Some(flat.primary))
        kept == {k \in DOMAIN zipped : k # NULL /\ zipped[k] # None}
        keys_map == [k \in kept |-> zipped[k].some]
    IN IF environment_ids # None
       THEN ("environment" :> environment_ids.some) @@ keys_map
       ELSE keys_map

build_orderby(settings, ga, manual) ==
    LET o1 == IF ga.group_on_time
              THEN (IF ~manual THEN <<"-time">> ELSE <<"-time_t">>)
              ELSE <<>>
    IN IF ga.group_on_model /\ settings.groupby # NULL
       THEN o1 \o <<settings.groupby>> ELSE o1

(* A condition of a request is an object: its value, and whose object it is  *)
(* (the caller's, an entry of the registry, or one made in this call).       *)
condition_values(objects) == [i \in DOMAIN objects |-> objects[i].value]

caller_conditions(conditions) ==
    [i \in DOMAIN conditions |-> [ref |-> "caller", index |-> i, value |-> conditions[i]]]

(* The copy gone wrong: the registry's own condition objects are handed on. *)
deepcopy_shared(conditions) ==
    [i \in DOMAIN conditions |-> [ref |-> "registry", index |-> i, value |-> conditions[i]]]

(* deepcopy(model_query_settings.conditions): equal values, new objects. *)
deepcopy(conditions) ==
    [i \in DOMAIN conditions |-> [ref |-> "copy", index |-> i, value |-> conditions[i]]]

(* conditions = conditions if conditions is not None else []                 *)
(* conditions += deepcopy(model_query_settings.conditions)                   *)
build_conditions(settings, ga) ==
    (IF ga.conditions # None THEN caller_conditions(ga.conditions.some) ELSE <<>>)
        \o deepcopy(settings.conditions)

(* The end gone wrong: the caller's end is kept where it lies past the start *)
(* of the last bucket, the rollup is not added.                             *)
build_end_of_caller(series, rollup, end) ==
    IF end > series[Len(series)] THEN end ELSE series[Len(series)]

(* end = to_datetime(series[-1] + rollup); the caller's end is not used. *)
build_end(series, rollup, end) == series[Len(series)] + rollup

(* The limit gone wrong: min(10000, ...) is missing. *)
build_limit_uncapped(keys, start, end, rollup) ==
    KeyLen(keys) * ((end - start) \div rollup)

(* min(10000, int(len(keys) * ((end - start).total_seconds() / rollup))):    *)
(* start and end are bucket bounds, the quotient is a whole number.          *)
build_limit(keys, start, end, rollup) ==
    LET count == KeyLen(keys) * ((end - start) \div rollup)
    IN IF count < 10000 THEN count ELSE 10000

(* The locals at `if keys:`, from the keys, the settings of the model, the  *)
(* flattened keys, the resolved rollup and the series with its jitter.      *)
get_data_request(ga, keys, settings, flat, rollup, series) ==
    [keys |-> keys, flat |-> flat, model_group |-> settings.groupby,
     dataset |-> IF ga.rollup = Some(10) /\ settings.dataset = "Outcomes"
                 THEN "OutcomesRaw" ELSE settings.dataset,
     start |-> series[1],
     end |-> build_end(series, rollup, ga.end),
     groupby |-> build_groupby(settings, ga, ga.model \in manual_group_on_time_models),
     conditions |-> build_conditions(settings, ga),
     filter_keys |-> build_keys_map(settings, flat, ga.environment_ids),
     aggregations |->
         <<[fn |-> ga.aggregation, target |-> build_model_aggregate(settings, ga),
            alias |-> aggregated_as]>>
         \o (IF ga.group_on_time /\ ga.model \in manual_group_on_time_models
             THEN <<manual_group_on_time_aggregation(rollup, group_on_time_column_alias)>>
             ELSE <<>>),
     rollup |-> rollup,
     limit |-> build_limit(keys, series[1], build_end(series, rollup, ga.end), rollup),
     orderby |-> build_orderby(settings, ga, ga.model \in manual_group_on_time_models),
     is_grouprelease |-> (ga.model = "frequent_releases_by_group"),
     use_cache |-> ga.use_cache, selected_columns |-> settings.selected_columns,
     series |-> series, manual |-> ga.model \in manual_group_on_time_models]

(* From the planner's answer on: the series gets its jitter. *)
get_data_planned(ga, keys, settings, flat, planned) ==
    get_data_request(ga, keys, settings, flat, planned.rollup,
                     add_jitter_to_series(planned.series, ga.start, planned.rollup,
                                          ga.jitter_value))

(* From flatten_keys on: its exception, or the planner is asked. *)
get_data_flattened(ga, resolved, keys, settings, flat) ==
    IF IsErr(flat) THEN flat
    ELSE get_data_planned(ga, keys, settings, flat,
                          get_optimal_rollup_series(ga.start, ga.end, resolved))

(* From the registry lookup on, with the keys as line 267 left them. *)
get_data_lookup(ga, resolved, keys) ==
    IF IsErr(keys) THEN keys
    ELSE IF registry_get(ga.model) = None
    THEN Err("Exception: Unsupported TSDBModel")
    ELSE get_data_flattened(ga, resolved, keys, registry_get(ga.model).some,
                            flatten_keys(keys))

get_data_build(ga, resolved) ==
    get_data_lookup(ga, resolved,
                    IF ga.model \in key_total_models THEN key_total_keys(ga.keys)
                    ELSE ga.keys)

(* get_data from the executor's answer (or from {} when keys is empty) to    *)
(* its return value; `executed` tells which.                                 *)
time_keys_map(b, ga) ==
    IF ga.group_on_time
    THEN (IF ~b.manual THEN ("time" :> b.series) @@ b.filter_keys
          ELSE (group_on_time_column_alias :> b.series) @@ b.filter_keys)
    ELSE b.filter_keys

(* result as zerofill receives it: unnested already when the model has      *)
(* selected columns and the query ran.                                       *)
get_data_result(b, result, executed) ==
    IF executed /\ b.selected_columns # <<>> THEN unnest(result) ELSE result

get_data_zerofilled(b, ga, result, executed) ==
    zerofill(get_data_result(b, result, executed), b.groupby, time_keys_map(b, ga))

(* self.trim(result, groupby, keys), reached when zerofill did not raise. *)
trim_zerofilled(r1, b) == IF IsErr(r1) THEN r1 ELSE trim(r1, b.groupby, b.keys)

get_data_trimmed(b, ga, result, executed) ==
    trim_zerofilled(get_data_zerofilled(b, ga, result, executed), b)

(* The last unnest, for the models that group on time by hand. *)
unnest_trimmed(r2, b, ga) ==
    IF IsErr(r2) THEN r2
    ELSE IF ga.group_on_time /\ b.manual THEN unnest(r2)
    ELSE r2

get_data_finish(b, ga, result, executed) ==
    unnest_trimmed(get_data_trimmed(b, ga, result, executed), b, ga)

(* The steps from zerofill on, r1 what zerofill gave. *)
steps_from_zerofill(r1, b, ga) ==
    <<"zerofill">>
    \o (IF IsErr(r1) THEN <<>> ELSE <<"trim">>)
    \o (IF ~IsErr(r1) /\ ga.group_on_time /\ b.manual THEN <<"unnest">> ELSE <<>>)

(* The steps gone wrong: no unnest straight after the query. *)
get_data_steps_unnest_last(b, ga, result, executed) ==
    (IF executed THEN <<"execute">> ELSE <<>>)
    \o steps_from_zerofill(get_data_zerofilled(b, ga, result, executed), b, ga)

(* The reshaping steps that call runs, in order. *)
get_data_steps(b, ga, result, executed) ==
    (IF executed THEN <<"execute">> ELSE <<>>)
    \o (IF executed /\ b.selected_columns # <<>> THEN <<"unnest">> ELSE <<>>)
    \o steps_from_zerofill(get_data_zerofilled(b, ga, result, executed), b, ga)

----------------------------------------------------------------------------
(* The facade. *)

FacadeOps == {"get_range", "get_distinct_counts_series", "get_distinct_counts_totals",
              "get_distinct_counts_union", "get_most_frequent",
              "get_most_frequent_series", "get_frequency_series",
              "get_frequency_totals"}

(* f"topK({limit})" *)
topK_aggregation(limit) == "topK(" \o ToString(limit) \o ")"

IsTopK(aggregation) == Len(aggregation) >= 5 /\ SubSeq(aggregation, 1, 5) = "topK("

(* [environment_id] if environment_id is not None else None *)
environment_list(environment_id) ==
    IF environment_id # None THEN Some(<<environment_id.some>>) ELSE None

(* The arguments a call hands to get_data; c holds the caller's arguments. *)
get_data_args(c) ==
    LET positional ==
            [model |-> c.model, keys |-> c.keys, start |-> c.start, end |-> c.end,
             rollup |-> c.rollup, environment_ids |-> environment_list(c.environment_id),
             aggregation |-> "count()", group_on_model |-> TRUE, group_on_time |-> FALSE,
             conditions |-> None, use_cache |-> FALSE, jitter_value |-> None]
    IN
    LET cache == IF c.use_cache # None THEN c.use_cache.some ELSE FALSE IN
    IF c.op = "get_data"
    THEN [positional EXCEPT !.aggregation = c.aggregation,
                            !.group_on_model = c.group_on_model,
                            !.group_on_time = c.group_on_time,
                            !.conditions = c.conditions,
                            !.use_cache = cache,
                            !.jitter_value = c.jitter_value]
    ELSE IF c.op = "get_range"
    THEN [positional EXCEPT !.aggregation =
                                IF registry_get(c.model).some.dataset = "Outcomes"
                                THEN "sum" ELSE "count()",
                            !.group_on_time = TRUE,
                            !.conditions = c.conditions,
                            !.use_cache = cache,
                            !.jitter_value = c.jitter_value]
    ELSE IF c.op = "get_distinct_counts_series"
    THEN [positional EXCEPT !.aggregation = "uniq", !.group_on_time = TRUE]
    ELSE IF c.op = "get_distinct_counts_totals"
    THEN [positional EXCEPT !.aggregation = "uniq",
                            !.use_cache = cache,
                            !.jitter_value = c.jitter_value]
    ELSE IF c.op = "get_distinct_counts_union"
    THEN [positional EXCEPT !.aggregation = "uniq", !.group_on_model = FALSE]
    ELSE IF c.op = "get_most_frequent"
    THEN [positional EXCEPT !.aggregation = topK_aggregation(c.limit)]
    ELSE IF c.op = "get_most_frequent_series"
    THEN [positional EXCEPT !.aggregation = topK_aggregation(c.limit),
                            !.group_on_time = TRUE]
    ELSE IF c.op = "get_frequency_series"
    THEN [positional EXCEPT !.group_on_time = TRUE]
    ELSE positional

(* The operations whose signature has the keyword. *)
accepts_conditions == {"get_data", "get_range"}
accepts_use_cache == {"get_data", "get_range", "get_distinct_counts_totals"}
accepts_jitter_value == {"get_data", "get_range", "get_distinct_counts_totals"}

(* A keyword the signature does not have is refused when the call is bound. *)
unexpected_keyword(c) ==
    \/ c.conditions # None /\ c.op \notin accepts_conditions
    \/ c.use_cache # None /\ c.op \notin accepts_use_cache
    \/ c.jitter_value # None /\ c.op \notin accepts_jitter_value

(* The exception a facade operation raises before it calls get_data. *)
facade_precheck(c) ==
    IF unexpected_keyword(c) THEN "TypeError: unexpected keyword argument"
    ELSE IF c.op = "get_range" /\ registry_get(c.model) = None
    THEN "AssertionError: Unsupported TSDBModel"
    ELSE "none"

(* What an expression that may raise gives when it does not. *)
Ok(x) == [ok |-> x]

(* sorted(d.items()): by key; the keys of a dict differ, so the values are *)
(* never compared, and "aggregate" cannot be compared with an integer.    *)
sorted_pairs(pairs) ==
    IF Len(pairs) <= 1 THEN Ok(pairs)
    ELSE IF \E i \in DOMAIN pairs : IsStr(pairs[i][1]) THEN Err("TypeError")
    ELSE LET keys == Sorted({pairs[i][1].int : i \in DOMAIN pairs})
         IN Ok([i \in DOMAIN keys |->
                  pairs[CHOOSE j \in DOMAIN pairs : pairs[j][1].int = keys[i]]])

(* The keys `for k in result` yields, or the exception it raises; a string  *)
(* that is not empty yields characters, which index no string.              *)
iterated(result) ==
    IF IsMap(result) THEN Ok(dict_keys(result))
    ELSE IF IsList(result) THEN Ok(result.list)
    ELSE IF IsStr(result) /\ result.str = "" THEN Ok(<<>>)
    ELSE Err("TypeError")

(* result[k] of a dict that has the key k, or of a list. *)
subscript(result, k) ==
    IF IsMap(result)
    THEN (IF IsStr(k) THEN result.aggregate.some ELSE result.map[k.int])
    ELSE IF ~IsInt(k) THEN Err("TypeError")
    ELSE IF list_position(result.list, k.int) = 0 THEN Err("IndexError")
    ELSE result.list[list_position(result.list, k.int)]

(* The dict a comprehension builds from the keys and the values in sequence. *)
dict_of(keys, values) ==
    LET ints == {i \in DOMAIN keys : IsInt(keys[i])}
        aggs == {i \in DOMAIN keys : IsStr(keys[i])}
        int_keys == SelectSeq(keys, LAMBDA k : IsInt(k))
        last(k) == CHOOSE i \in ints :
                      keys[i].int = k /\ \A j \in ints : keys[j].int = k => j <= i
    IN Dict(IF aggs = {} THEN None
            ELSE Some(values[CHOOSE i \in aggs : \A j \in aggs : j <= i]),
            Distinct([i \in DOMAIN int_keys |-> int_keys[i].int]),
            [k \in {keys[i].int : i \in ints} |-> values[last(k)]])

(* The dict of a comprehension over the keys, or the first exception an     *)
(* item of it raised.                                                       *)
dict_or_error(keys, values) ==
    IF first_error(values) # None THEN first_error(values)
    ELSE dict_of(keys, values)

items_or_error(pairs) == IF IsErr(pairs) THEN pairs ELSE [items |-> pairs.ok]

(* sorted(v.items()) of the value v = result[k]. *)
sorted_items(v) ==
    IF IsErr(v) THEN v
    ELSE IF ~IsMap(v) THEN Err("AttributeError")
    ELSE items_or_error(sorted_pairs(dict_items(v)))

items_of_keys(result, keys) ==
    IF IsErr(keys) THEN keys
    ELSE dict_or_error(keys.ok,
                       [i \in DOMAIN keys.ok |->
                          sorted_items(subscript(result, keys.ok[i]))])

(* {k: sorted(result[k].items()) for k in result} *)
items_by_key(result) == items_of_keys(result, iterated(result))

(* The characters of a string. *)
characters(s) == [i \in 1..Len(s) |-> StrLeaf(SubSeq(s, i, i))]

(* reversed(top or []): of a list its elements, of a dict its keys, of a    *)
(* string its characters; an integer other than 0 is not reversible.        *)
reversed_or_empty(top) ==
    IF ~Truthy(top) THEN Ok(<<>>)
    ELSE IF IsList(top) THEN Ok(Reverse(top.list))
    ELSE IF IsMap(top) THEN Ok(Reverse(dict_keys(top)))
    ELSE IF IsStr(top) THEN Ok(Reverse(characters(top.str)))
    ELSE Err("TypeError")

(* [(v, float(i + 1)) for i, v in enumerate(...)]; the score float(i + 1)   *)
(* is written as the integer it equals.                                     *)
enumerated(r) ==
    IF IsErr(r) THEN r ELSE Ok([i \in DOMAIN r.ok |-> <<r.ok[i], i>>])

item_scores(top) == enumerated(reversed_or_empty(top))

scored_unreversed(scores) ==
    IF IsErr(scores) THEN scores ELSE [scored |-> scores.ok]

(* The re-scoring gone wrong: the second reversal is missing. *)
most_frequent_scores_unreversed(result) ==
    IF ~IsMap(result) THEN Err("AttributeError")
    ELSE dict_or_error(dict_keys(result),
                       [i \in DOMAIN dict_values(result) |->
                          scored_unreversed(item_scores(dict_values(result)[i]))])

(* list(reversed(item_scores)) *)
scored_reversed(scores) ==
    IF IsErr(scores) THEN scores ELSE [scored |-> Reverse(scores.ok)]

(* for k, top in result.items(): result[k] = list(reversed(item_scores)) *)
most_frequent_scores(result) ==
    IF ~IsMap(result) THEN Err("AttributeError")
    ELSE dict_or_error(dict_keys(result),
                       [i \in DOMAIN dict_values(result) |->
                          scored_reversed(item_scores(dict_values(result)[i]))])

(* The items <<v, score>> of the dict {v: score} in the order of its keys,  *)
(* from the items in sequence and the keys among them: a later score        *)
(* replaces an earlier one.                                                 *)
score_items(items, keys) ==
    [scores |->
       [j \in DOMAIN keys |->
          <<keys[j], CHOOSE i \in DOMAIN items :
                        /\ items[i] = keys[j]
                        /\ \A h \in DOMAIN items : items[h] = keys[j] => h <= i>>]]

scores_of_reversed(r) ==
    IF IsErr(r) THEN r
    ELSE IF \E i \in DOMAIN r.ok : IsList(r.ok[i]) \/ IsMap(r.ok[i]) THEN Err("TypeError")
    ELSE score_items(r.ok, Distinct(r.ok))

(* {v: float(i + 1) for i, v in enumerate(reversed(topk or []))}; a list or *)
(* a dict is not hashable.                                                  *)
score_map(topk) == scores_of_reversed(reversed_or_empty(topk))

sorted_buckets(pairs, scored) ==
    IF first_error(scored) # None THEN first_error(scored)
    ELSE sorted_pairs([i \in DOMAIN pairs |-> <<pairs[i][1], scored[i]>>])

(* sorted((timestamp, score_map(topk)) for (timestamp, topk) in d.items()) *)
scored_buckets(d) ==
    sorted_buckets(dict_items(d),
                   [i \in DOMAIN dict_items(d) |-> score_map(dict_items(d)[i][2])])

(* sorted(... for (timestamp, topk) in result[k].items()) *)
bucket_items(buckets) ==
    IF ~IsMap(buckets) THEN Err("AttributeError")
    ELSE items_or_error(scored_buckets(buckets))

most_frequent_series_scores(result) ==
    IF ~IsMap(result) THEN Err("AttributeError")
    ELSE dict_or_error(dict_keys(result),
                       [i \in DOMAIN dict_values(result) |->
                          bucket_items(dict_values(result)[i])])

facade_transform(op, result) ==
    IF IsErr(result) THEN result
    ELSE IF op \in {"get_range", "get_distinct_counts_series", "get_frequency_series"}
    THEN items_by_key(result)
    ELSE IF op = "get_most_frequent" THEN most_frequent_scores(result)
    ELSE IF op = "get_most_frequent_series" THEN most_frequent_series_scores(result)
    ELSE result

----------------------------------------------------------------------------
(* The backend executor (snuba.query, outside the sources): it answers a     *)
(* request with a mapping nested by the request's group-by columns, holding  *)
(* at most MaxRows rows.  With more than one projected column a leaf is the  *)
(* row of those columns, otherwise the aggregate itself.                     *)

MaxRows == 1
MaxFlatLen == 2

(* Keys whose order in a CPython set is not their ascending order: 8 comes *)
(* before 1 and 24 before 21.                                              *)
PrimaryKeys == {1, 8}
SecondaryKeys == {21, 24}
StrayPrimaryKeys == {3}
StraySecondaryKeys == {23}
EnvironmentIds == {7}
IntValues == {5}
TopKLists == {<<StrLeaf("a")>>, <<StrLeaf("c"), StrLeaf("b"), StrLeaf("a")>>}

RECURSIVE KSubsets(_, _)
KSubsets(S, n) ==
    IF n = 0 THEN {{}}
    ELSE LET smaller == KSubsets(S, n - 1)
         IN smaller \cup {P \cup {x} : P \in smaller, x \in S}

(* The group values a row can carry in the i-th group-by column. *)
column_values(b, i) ==
    IF b.groupby[i] \in {"time", group_on_time_column_alias} THEN Range(b.series)
    ELSE IF b.groupby[i] = b.model_group THEN PrimaryKeys \cup StrayPrimaryKeys
    ELSE SecondaryKeys \cup StraySecondaryKeys

RECURSIVE Paths(_, _)
Paths(b, i) ==
    IF i > Len(b.groupby) THEN {<<>>}
    ELSE {<<v>> \o rest : v \in column_values(b, i), rest \in Paths(b, i + 1)}

(* A zero aggregate is enumerated where the code looks at the value: in a   *)
(* row.                                                                      *)
leaf_values(b) ==
    LET plain == IF IsTopK(b.aggregations[1].fn)
                 THEN {ListLeaf(l) : l \in TopKLists}
                 ELSE {IntLeaf(n) : n \in IntValues}
    IN IF Len(b.aggregations) + Len(b.selected_columns) > 1
       THEN {Row(v) : v \in plain \cup (IF IsTopK(b.aggregations[1].fn) THEN {}
                                         ELSE {IntLeaf(0)})}
       ELSE plain

(* The rows of an answer come in the order the request asks for: by time,  *)
(* latest first, then by the model's column, when the request orders by     *)
(* them, then by the remaining columns.                                     *)
row_rank(b, path) ==
    [i \in DOMAIN b.orderby |->
       LET descending == b.orderby[i] \in {"-time", "-time_t"}
           column == IF b.orderby[i] = "-time" THEN "time"
                     ELSE IF b.orderby[i] = "-time_t" THEN group_on_time_column_alias
                     ELSE b.orderby[i]
           value == path[CHOOSE j \in DOMAIN b.groupby : b.groupby[j] = column]
       IN IF descending THEN 0 - value ELSE value] \o path

RECURSIVE lexicographic(_, _)
lexicographic(p, q) ==
    IF p = <<>> THEN TRUE
    ELSE IF Head(p) # Head(q) THEN Head(p) < Head(q)
    ELSE lexicographic(Tail(p), Tail(q))

RECURSIVE rows_in_order(_, _)
rows_in_order(b, rows) ==
    IF rows = {} THEN <<>>
    ELSE LET first == CHOOSE r \in rows :
                         \A o \in rows : lexicographic(row_rank(b, r.path), row_rank(b, o.path))
         IN <<first>> \o rows_in_order(b, rows \ {first})

(* nest_groups: one level of mapping per group-by column, its keys in the   *)
(* order in which the rows bring them; without group-by columns the         *)
(* aggregate of the only row, or None when there is no row.                 *)
RECURSIVE nest_groups(_, _, _)
nest_groups(rows, i, depth) ==
    IF i > depth
    THEN (IF rows = <<>> THEN None ELSE rows[1].leaf)
    ELSE LET keys == Distinct([j \in DOMAIN rows |-> rows[j].path[i]])
         IN Map([j \in DOMAIN keys |->
                   <<keys[j],
                     nest_groups(SelectSeq(rows, LAMBDA r : r.path[i] = keys[j]),
                                 i + 1, depth)>>])

Responses(b) ==
    LET row_sets == UNION {[P -> leaf_values(b)] : P \in KSubsets(Paths(b, 1), MaxRows)}
    IN {nest_groups(rows_in_order(b, {[path |-> p, leaf |-> f[p]] : p \in DOMAIN f}),
                    1, Len(b.groupby))
          : f \in row_sets}

(* The executor may change the condition list it is handed ("we modify the   *)
(* conditions in snuba.query"): leave it, append a condition to it, or       *)
(* rewrite its conditions in place.                                          *)
ExecutorMutations == {"none", "append", "rewrite"}

executor_condition == <<"project_id", "IN", "projects">>

mutate_conditions(objects, kind) ==
    IF kind = "append"
    THEN Append(objects, [ref |-> "executor", index |-> 0, value |-> executor_condition])
    ELSE IF kind = "rewrite"
    THEN [i \in DOMAIN objects |->
            [objects[i] EXCEPT !.value = <<@[1], @[2], "rewritten">>]]
    ELSE objects

(* The registry after the executor changed the objects: a condition object   *)
(* that is the registry's own shows the change in the registry.              *)
registry_after(reg, model, objects) ==
    LET shared == {i \in DOMAIN objects : objects[i].ref = "registry"}
    IN IF shared = {} THEN reg
       ELSE [reg EXCEPT ![model].conditions =
               [j \in DOMAIN @ |->
                  IF \E i \in shared : objects[i].index = j
                  THEN objects[CHOOSE i \in shared : objects[i].index = j].value
                  ELSE @[j]]]

----------------------------------------------------------------------------
(* The calls. *)

NoCall == [op |-> "none"]
NoBuild == [none |-> TRUE]

Init ==
    /\ pc = "idle"
    /\ call = NoCall
    /\ built = NoBuild
    /\ backendCalls = 0
    /\ response = None
    /\ ret = None
    /\ error = "none"
    /\ steps = <<>>
    /\ registry = model_query_settings
    /\ callerConditions = None

(* A call that raises before the round trip, or returns without one. *)
Raise(e) ==
    /\ pc' = "done"
    /\ error' = e
    /\ UNCHANGED <<built, backendCalls, response, ret, steps>>

(* The call ends with what get_data and the facade's transform give: a     *)
(* value or an exception.                                                   *)
Finish(out, run) ==
    /\ pc' = "done"
    /\ steps' = run
    /\ ret' = IF IsErr(out) THEN None ELSE out
    /\ error' = IF IsErr(out) THEN out.err ELSE "none"

(* get_data at `if keys:` with the locals b, or at the exception raised on   *)
(* the way there.  The caller's condition list is the list get_data extends  *)
(* in place.                                                                 *)
Built(c, ga, b) ==
    IF IsErr(b) THEN Raise(b.err) /\ callerConditions' = c.conditions
    ELSE
      /\ callerConditions' = IF ga.conditions # None
                              THEN Some(condition_values(b.conditions)) ELSE None
      /\ built' = b
      /\ IF KeysTruthy(b.keys)
         THEN /\ pc' = "waiting"
              /\ backendCalls' = backendCalls + 1
              /\ UNCHANGED <<response, ret, error, steps>>
         ELSE /\ Finish(facade_transform(c.op, get_data_finish(b, ga, EmptyMap, FALSE)),
                        get_data_steps(b, ga, EmptyMap, FALSE))
              /\ UNCHANGED <<backendCalls, response>>

Call(c, resolved) ==
    /\ pc = "idle"
    /\ call' = c
    /\ UNCHANGED registry
    /\ IF facade_precheck(c) # "none"
       THEN Raise(facade_precheck(c)) /\ callerConditions' = c.conditions
       ELSE Built(c, get_data_args(c), get_data_build(get_data_args(c), resolved))

(* The executor's changes of the condition list show in the caller's list   *)
(* and, were the objects the registry's, in the registry.                   *)
Mutated(after) ==
    /\ registry' = registry_after(registry, call.model, after)
    /\ callerConditions' = IF callerConditions # None
                            THEN Some(condition_values(after)) ELSE None

BackendReturn ==
    /\ pc = "waiting"
    /\ \E result \in Responses(built), kind \in ExecutorMutations :
          /\ Finish(facade_transform(call.op,
                                     get_data_finish(built, get_data_args(call), result, TRUE)),
                    get_data_steps(built, get_data_args(call), result, TRUE))
          /\ response' = result
          /\ Mutated(mutate_conditions(built.conditions, kind))
          /\ UNCHANGED <<call, built, backendCalls>>

(* The round trip gone wrong: the exception is swallowed and the query sent *)
(* again.                                                                   *)
BackendRaise_retry ==
    /\ pc = "waiting"
    /\ backendCalls' = backendCalls + 1
    /\ UNCHANGED <<pc, call, built, response, ret, error, steps, registry,
                   callerConditions>>

BackendRaise ==
    /\ pc = "waiting"
    /\ pc' = "done"
    /\ error' = "BackendExecutionError"
    /\ steps' = <<"execute">>
    /\ UNCHANGED <<call, built, backendCalls, response, ret, registry, callerConditions>>

Return ==
    /\ pc = "done"
    /\ pc' = "idle"
    /\ call' = NoCall
    /\ built' = NoBuild
    /\ backendCalls' = 0
    /\ response' = None
    /\ ret' = None
    /\ error' = "none"
    /\ steps' = <<>>
    /\ callerConditions' = None
    /\ UNCHANGED registry

----------------------------------------------------------------------------
(* The calls explored: every operation on every kind of model with every    *)
(* key set, and every operation with every rollup and environment filter.   *)

CallModels ==
    {"project", "group_performance", "group_profiling", "users_affected_by_group",
     "users_affected_by_perf_group", "users_affected_by_profile_group",
     "frequent_environments_by_group", "organization_total_received",
     "key_total_received", "internal"}

RECURSIVE SeqsUpTo(_, _)
SeqsUpTo(S, n) ==
    IF n = 0 THEN {<<>>}
    ELSE LET shorter == SeqsUpTo(S, n - 1)
         IN shorter \cup {Append(q, x) : q \in shorter, x \in S}

SecondaryLists == {<<>>, <<21>>, <<21, 24>>, <<24, 24>>}

KeyInputs ==
    {FlatKeys(q) : q \in SeqsUpTo(PrimaryKeys, MaxFlatLen)}
    \cup {NestedKeys([i \in DOMAIN Sorted(DOMAIN m) |->
                          <<Sorted(DOMAIN m)[i], m[Sorted(DOMAIN m)[i]]>>]) :
             m \in UNION {[D -> SecondaryLists] : D \in SUBSET PrimaryKeys}}
    \cup {NestedKeys(<< <<8, <<24>>>>, <<1, <<21>>>> >>)}
    \cup {ScalarKeys(5), IterKeys(<<1, 1>>)}

FewKeyInputs == {FlatKeys(<<1>>), NestedKeys(<< <<1, <<21>>>> >>)}

(* Key sets with keys below 0: hash(-1) is -2, and the probe sequence of a  *)
(* hash below 0 starts from 2^64 + hash.                                    *)
NegativeKeyInputs ==
    {FlatKeys(<<-1>>), FlatKeys(<<-1, 1>>), FlatKeys(<<6, -2>>),
     NestedKeys(<< <<1, <<-1, 6>>>> >>), NestedKeys(<< <<1, <<-1>>>>, <<8, <<1>>>> >>)}

DirectCalls(models, keysets, rollups, environments) ==
    [op : {"get_data"}, model : models, keys : keysets, start : {5}, end : {15},
     rollup : rollups, environment_id : environments,
     aggregation : {"count()", "uniq"}, group_on_model : BOOLEAN,
     group_on_time : BOOLEAN, conditions : {None}, use_cache : {None},
     jitter_value : {None}, limit : {10}]

FacadeCalls(models, keysets, rollups, environments) ==
    [op : FacadeOps, model : models, keys : keysets, start : {5}, end : {15},
     rollup : rollups, environment_id : environments,
     aggregation : {"count()"}, group_on_model : {TRUE},
     group_on_time : {FALSE}, conditions : {None}, use_cache : {None},
     jitter_value : {None}, limit : {3}]

(* Calls with the optional keywords: a conditions list, the cache flag, a    *)
(* jitter value.                                                            *)
ConditionInputs == {Some(<<>>), Some(<< <<"tags[level]", "=", "error">> >>)}
JitterValues == {13}

OptionCalls ==
    {[c EXCEPT !.conditions = x, !.use_cache = u, !.jitter_value = j] :
        c \in {d \in DirectCalls({"project", "organization_total_received"},
                                 {FlatKeys(<<>>), FlatKeys(<<1>>)}, {Some(10)}, {None})
                     \cup FacadeCalls({"project", "organization_total_received"},
                                      {FlatKeys(<<>>), FlatKeys(<<1>>)}, {Some(10)}, {None}) :
                  /\ d.op \in accepts_use_cache
                  /\ d.aggregation = "count()" /\ d.group_on_model},
        x \in {None} \cup ConditionInputs,
        u \in {Some(TRUE), Some(FALSE)},
        j \in {None} \cup {Some(v) : v \in JitterValues}}
    \cup {[c EXCEPT !.use_cache = Some(TRUE)] :
            c \in FacadeCalls({"project"}, {FlatKeys(<<1>>)}, {Some(10)}, {None})}

(* Calls over a range of more than 10000 buckets. *)
LongRangeEnd == 100015

LongRangeCalls ==
    {[c EXCEPT !.end = LongRangeEnd] :
        c \in {d \in DirectCalls({"project", "key_total_received"},
                                 {FlatKeys(<<1>>), FlatKeys(<<1, 1>>), FlatKeys(<<1, 8>>)},
                                 {Some(10)}, {None}) :
                  ~d.group_on_time /\ d.aggregation = "uniq"}}

CallInputs ==
    DirectCalls(CallModels, KeyInputs, {Some(10)}, {None})
    \cup FacadeCalls(CallModels, KeyInputs, {Some(10)}, {None})
    \cup DirectCalls(CallModels, FewKeyInputs, {None, Some(10), Some(3600)}, ({None} \cup {Some(e) : e \in EnvironmentIds}))
    \cup FacadeCalls(CallModels, FewKeyInputs, {None, Some(10), Some(3600)}, ({None} \cup {Some(e) : e \in EnvironmentIds}))
    \cup DirectCalls({"key_total_received", "users_affected_by_group"}, NegativeKeyInputs,
                     {Some(10)}, {None})
    \cup OptionCalls
    \cup LongRangeCalls

(* A caller calls an operation; the planner resolves the rollup. *)
CallOperation ==
    \E c \in CallInputs : \E resolved \in resolved_rollups(c.rollup) : Call(c, resolved)

Next ==
    \/ CallOperation
    \/ BackendReturn
    \/ BackendRaise
    \/ Return

Spec == Init /\ [][Next]_vars

----------------------------------------------------------------------------
(* What the properties below speak about. *)

Registered == call.model \in DOMAIN model_query_settings
(* The call passes no keyword its operation does not have. *)
KeywordsAccepted == ~unexpected_keyword(call)
AcceptedShape(keys) == IsFlat(keys) \/ IsNested(keys)
EmptyKeySet(keys) == keys = FlatKeys(<<>>) \/ keys = NestedKeys(<<>>)
Answered == pc = "done" /\ backendCalls = 1 /\ error # "BackendExecutionError"
UnsupportedModelErrors ==
    {"Exception: Unsupported TSDBModel", "AssertionError: Unsupported TSDBModel"}

(* The aggregate of a leaf the executor returned. *)
Aggregate(node) == IF IsRow(node) THEN node.aggregate.some ELSE node

RECURSIVE NodeAt(_, _)
NodeAt(tree, path) ==
    IF path = <<>> THEN tree
    ELSE IF IsMap(tree) /\ Head(path) \in DOMAIN tree.map
    THEN NodeAt(tree.map[Head(path)], Tail(path))
    ELSE None

(* The secondary keys requested for the branch of primary key prim (for the *)
(* whole key set when the tree has no primary level).                       *)
SecondaryOf(keys, prim) ==
    IF ~IsNested(keys) THEN {}
    ELSE IF prim = None THEN UNION {Range(keys.nested[k]) : k \in DOMAIN keys.nested}
    ELSE Range(keys.nested[prim.some])

IsTimeColumn(column) == column \in {"time", group_on_time_column_alias}

(* From level i of the group-by list down: every non-time level holds       *)
(* exactly the requested keys, every leaf the executor's value or 0.        *)
RECURSIVE ExactKeys(_, _, _, _)
ExactKeys(tree, i, prim, path) ==
    IF i > Len(built.groupby)
    THEN \/ tree = IntLeaf(0)
         \/ tree = NodeAt(response, path)
         \/ tree = Aggregate(NodeAt(response, path))
    ELSE /\ IsGroupMap(tree)
         /\ LET column == built.groupby[i]
                want == IF column = built.model_group THEN Range(built.flat.primary)
                        ELSE SecondaryOf(built.keys, prim)
            IN IF IsTimeColumn(column)
               THEN \A t \in DOMAIN tree.map :
                        ExactKeys(tree.map[t], i + 1, prim, Append(path, t))
               ELSE /\ DOMAIN tree.map = want
                    /\ \A k \in want :
                         ExactKeys(tree.map[k], i + 1,
                                   IF column = built.model_group THEN Some(k) ELSE prim,
                                   Append(path, k))

(* From level i down: every requested key and every bucket is present and   *)
(* every leaf is 0 (None where the request groups by nothing).              *)
RECURSIVE ZeroTree(_, _, _)
ZeroTree(tree, i, prim) ==
    IF i > Len(built.groupby)
    THEN tree = IntLeaf(0) \/ (built.groupby = <<>> /\ tree = None)
    ELSE /\ IsGroupMap(tree)
         /\ LET column == built.groupby[i]
                want == IF IsTimeColumn(column) THEN Range(built.series)
                        ELSE IF column = built.model_group THEN Range(built.flat.primary)
                        ELSE SecondaryOf(built.keys, prim)
            IN /\ want \subseteq DOMAIN tree.map
               /\ \A k \in want :
                     ZeroTree(tree.map[k], i + 1,
                              IF column = built.model_group THEN Some(k) ELSE prim)

(* C1: for every key set, every group-by list get_data builds and every     *)
(* answer of the executor, the tree get_data returns after zerofill and     *)
(* trim holds exactly the requested keys at every non-time level, each leaf *)
(* the executor's value or 0.                                               *)
C1_ZerofillTrimExactKeys ==
    (Answered /\ call.op = "get_data")
    => (error = "none" /\ ExactKeys(ret, 1, None, <<>>))

(* C2: a facade operation on a registered model with a non-empty key set of *)
(* an accepted shape, answered with no rows, does not raise and returns a   *)
(* zero leaf for every requested key combination.                           *)
C2_NoRowsGiveZeroLeaves ==
    (/\ Answered /\ call.op \in FacadeOps /\ Registered
     /\ AcceptedShape(call.keys) /\ KeyLen(call.keys) > 0
     /\ response \in {EmptyMap, None})
    => (/\ error = "none"
        /\ ZeroTree(get_data_finish(built, get_data_args(call), response, TRUE), 1, None))

(* C3: a facade operation called with an empty primary key set never        *)
(* reaches the executor, and on a registered model, with the keywords the   *)
(* operation has, it returns the empty mapping.                             *)
C3_EmptyKeysShortCircuit ==
    (call # NoCall /\ call.op \in FacadeOps /\ EmptyKeySet(call.keys))
    => (/\ backendCalls = 0
        /\ pc # "waiting"
        /\ (pc = "done" /\ Registered /\ KeywordsAccepted)
              => (error = "none" /\ ret = EmptyMap))

C3_Witness ==
    /\ pc = "done" /\ call.op = "get_most_frequent_series"
    /\ call.model = "users_affected_by_profile_group"
    /\ call.keys = NestedKeys(<<>>) /\ ret = EmptyMap /\ backendCalls = 0

(* C4: a call with a model that has no registry entry ends with the         *)
(* unsupported-model error and never reaches the executor.                  *)
C4_UnsupportedModelFailsFast ==
    (call # NoCall /\ ~Registered)
    => (/\ backendCalls = 0
        /\ pc = "done"
        /\ error \in UnsupportedModelErrors
        /\ ret = None)

C4_Witness ==
    /\ pc = "done" /\ call.op = "get_frequency_totals" /\ call.model = "internal"
    /\ call.keys = FlatKeys(<<1, 8>>)
    /\ error = "Exception: Unsupported TSDBModel"

(* C5: the read methods return empty results for a model that is not in the *)
(* registry.                                                                *)
C5_UnsupportedModelEmptyResult ==
    (pc = "done" /\ ~Registered) => (error = "none" /\ ret = EmptyMap)

NoDuplicates(q) == \A i, j \in DOMAIN q : q[i] = q[j] => i = j

(* C6: flatten_keys gives a flat list back as the primary keys with no      *)
(* secondary keys, gives a mapping's keys and the duplicate-free union of   *)
(* its values, and raises for any other input, which in get_data happens    *)
(* before the executor is reached.                                          *)
C6_FlattenKeys ==
    /\ (built # NoBuild /\ call.model \notin key_total_models /\ IsFlat(call.keys))
       => (built.flat.primary = call.keys.flat /\ built.flat.secondary = None)
    /\ (built # NoBuild /\ call.model \notin key_total_models /\ IsNested(call.keys))
       => (/\ built.flat.primary = call.keys.order
           /\ Range(built.flat.primary) = DOMAIN call.keys.nested
           /\ NoDuplicates(built.flat.primary)
           /\ built.flat.secondary # None
           /\ Range(built.flat.secondary.some)
                 = UNION {Range(call.keys.nested[k]) : k \in DOMAIN call.keys.nested}
           /\ NoDuplicates(built.flat.secondary.some))
    /\ (/\ call # NoCall /\ Registered /\ call.model \notin key_total_models
        /\ ~AcceptedShape(call.keys))
       => (pc = "done" /\ error = "ValueError" /\ built = NoBuild)
    /\ error = "ValueError" => (backendCalls = 0 /\ ret = None)

C6_Witness ==
    /\ pc = "waiting"
    /\ call.keys = NestedKeys(<< <<1, <<21, 24>>>>, <<8, <<24, 24>>>> >>)
    /\ built.flat = [primary |-> <<1, 8>>, secondary |-> Some(<<24, 21>>)]

(* C7: with aggregation count() on a model that has an aggregate column the *)
(* request groups by that column, after the primary and the time column,    *)
(* and no aggregate expression targets it; with any other aggregation the   *)
(* column is the aggregate's target and is not grouped by.                  *)
C7_CountRewrite ==
    (backendCalls = 1 /\ Registered /\ model_query_settings[call.model].aggregate # NULL)
    => LET ga == get_data_args(call)
           settings == model_query_settings[call.model]
           groupby == built.groupby
           n == Len(groupby)
       IN IF ga.aggregation = "count()"
          THEN /\ n >= 1
               /\ groupby[n] = settings.aggregate
               /\ \A i \in 1..(n - 1) : groupby[i] # settings.aggregate
               /\ ga.group_on_model => (n >= 2 /\ groupby[1] = settings.groupby)
               /\ ga.group_on_time => \E i \in 1..(n - 1) : IsTimeColumn(groupby[i])
               /\ built.aggregations[1].fn = "count()"
               /\ built.aggregations[1].target = NULL
               /\ \A i \in DOMAIN built.aggregations :
                     built.aggregations[i].target # settings.aggregate
          ELSE /\ built.aggregations[1].fn = ga.aggregation
               /\ built.aggregations[1].target = settings.aggregate
               /\ settings.aggregate \notin Range(groupby)

C7_Witness ==
    /\ pc = "waiting" /\ call.op = "get_frequency_series"
    /\ call.model = "users_affected_by_group"
    /\ built.groupby = <<"group_id", "time", "tags[sentry:user]">>
    /\ built.aggregations = <<[fn |-> "count()", target |-> NULL, alias |-> "aggregate"]>>

(* The topK list the executor returned at a path, empty when it returned    *)
(* nothing there.                                                           *)
BackendTopK(path) ==
    LET top == Aggregate(NodeAt(response, path))
    IN IF IsList(top) THEN top.list ELSE <<>>

MostFrequentAnswered ==
    /\ Answered /\ error = "none" /\ call.op = "get_most_frequent"

(* C8 as stated: get_most_frequent returns the items least frequent first,  *)
(* with scores rising from 1.0: [("a",1.0), ("b",2.0), ("c",3.0)] for the   *)
(* topK list ["c","b","a"].                                                 *)
C8_LeastFrequentFirst ==
    MostFrequentAnswered
    => \A k \in DOMAIN ret.map :
          LET top == BackendTopK(<<k>>)
              n == Len(top)
          IN ret.map[k].scored = [i \in 1..n |-> <<top[n + 1 - i], i>>]

(* C8 amended: get_most_frequent returns the items in the executor's order, *)
(* most frequent first, with scores falling from n to 1.0:                  *)
(* [("c",3.0), ("b",2.0), ("a",1.0)] for the topK list ["c","b","a"].       *)
C8_MostFrequentFirst ==
    MostFrequentAnswered
    => \A k \in DOMAIN ret.map :
          LET top == BackendTopK(<<k>>)
              n == Len(top)
          IN ret.map[k].scored = [i \in 1..n |-> <<top[i], n + 1 - i>>]

C8_Witness ==
    /\ MostFrequentAnswered
    /\ response = Map(<< <<1, ListLeaf(<<StrLeaf("c"), StrLeaf("b"), StrLeaf("a")>>)>> >>)
    /\ 1 \in DOMAIN ret.map
    /\ ret.map[1].scored
          = << <<StrLeaf("c"), 3>>, <<StrLeaf("b"), 2>>, <<StrLeaf("a"), 1>> >>

(* The scores of one topK list: 1.0 .. n, n for the first (most frequent)   *)
(* item and 1.0 for the last.                                               *)
ScoredList(scored, top) ==
    LET n == Len(top)
    IN /\ Len(scored) = n
       /\ {scored[i][2] : i \in DOMAIN scored} = 1..n
       /\ \A i \in 1..n : \E j \in DOMAIN scored : scored[j] = <<top[i], n + 1 - i>>

ScoredMap(scores, top) ==
    LET n == Len(top)
    IN /\ Len(scores) = n
       /\ {scores[j][1] : j \in DOMAIN scores} = Range(top)
       /\ \A i \in 1..n : <<top[i], n + 1 - i>> \in Range(scores)

(* C9: in get_most_frequent and get_most_frequent_series the scores of a    *)
(* topK list of n distinct items are 1.0 .. n, the least frequent item has  *)
(* 1.0 and the most frequent n; a requested key or bucket for which the     *)
(* executor returned nothing has an empty list or mapping of scores.        *)
C9_Scores ==
    /\ (/\ Answered /\ call.op = "get_most_frequent" /\ Registered
        /\ AcceptedShape(call.keys))
       => (/\ error = "none"
           /\ \A k \in Range(built.flat.primary) :
                 /\ k \in DOMAIN ret.map
                 /\ ScoredList(ret.map[k].scored, BackendTopK(<<k>>)))
    /\ (/\ Answered /\ call.op = "get_most_frequent_series" /\ Registered
        /\ AcceptedShape(call.keys))
       => (/\ error = "none"
           /\ \A k \in Range(built.flat.primary) :
                 /\ k \in DOMAIN ret.map
                 /\ \A t \in Range(built.series) :
                       \E j \in DOMAIN ret.map[k].items :
                          /\ ret.map[k].items[j][1] = IntLeaf(t)
                          /\ ScoredMap(ret.map[k].items[j][2].scores,
                                       BackendTopK(<<k, t>>)))

(* C10: a call reaches the executor at most once: once when no exception    *)
(* came before and the key set is not empty, never when it is empty; an     *)
(* exception of the executor ends the call with that exception, with no     *)
(* second round trip and no result.                                         *)
C10_AtMostOneRoundTrip ==
    /\ backendCalls <= 1
    /\ pc = "waiting" => backendCalls = 1
    /\ (pc = "done" /\ built # NoBuild)
       => backendCalls = (IF KeyLen(built.keys) > 0 THEN 1 ELSE 0)
    /\ (pc = "done" /\ built = NoBuild) => (backendCalls = 0 /\ error # "none")
    /\ error = "BackendExecutionError"
       => (pc = "done" /\ backendCalls = 1 /\ ret = None /\ response = None)

C10_Witness ==
    /\ pc = "done" /\ error = "BackendExecutionError" /\ backendCalls = 1
    /\ call.op = "get_data" /\ ret = None

----------------------------------------------------------------------------
(* The registry and the optional keywords. *)

(* C11: whatever calls were made and whatever the executor did to the       *)
(* condition lists it was handed, every registry entry is what it was at    *)
(* the start; the conditions of a request share no object with the registry *)
(* and end with the model's conditions as they were at the start.           *)
C11_RegistryNeverMutated ==
    /\ registry = model_query_settings
    /\ built # NoBuild
       => LET own == model_query_settings[call.model].conditions
              n == Len(built.conditions)
              k == Len(own)
          IN /\ \A i \in DOMAIN built.conditions : built.conditions[i].ref # "registry"
             /\ n >= k
             /\ [i \in 1..k |-> built.conditions[n - k + i].value] = own

C11_Witness ==
    /\ pc = "done" /\ backendCalls = 1 /\ call.model = "project"
    /\ callerConditions # None
    /\ <<"type", "!=", "rewritten">> \in Range(callerConditions.some)
    /\ registry["project"].conditions = <<events_type_condition>>

(* C12: every facade operation takes a cache flag, and the use_cache the    *)
(* executor receives is the flag the caller passed.                         *)
C12_CacheFlagForwarded ==
    (call # NoCall /\ call.op \in FacadeOps /\ call.use_cache # None)
    => (/\ call.op \in accepts_use_cache
        /\ error # "TypeError: unexpected keyword argument"
        /\ built # NoBuild => built.use_cache = call.use_cache.some)

(* The primary keys the caller asked for. *)
RequestedPrimary(keys) ==
    IF IsNested(keys) THEN DOMAIN keys.nested
    ELSE IF IsIter(keys) THEN Range(keys.iter)
    ELSE Range(keys.flat)

(* C13: the request of get_distinct_counts_union groups neither by the      *)
(* model's primary column nor by a time column, binds the primary column to *)
(* the requested keys in its filter keys and carries every condition of the *)
(* model.                                                                   *)
C13_UnionRequest ==
    (call # NoCall /\ call.op = "get_distinct_counts_union" /\ built # NoBuild)
    => LET settings == model_query_settings[call.model]
       IN /\ \A i \in DOMAIN built.groupby :
                built.groupby[i] # settings.groupby /\ ~IsTimeColumn(built.groupby[i])
          /\ settings.groupby \in DOMAIN built.filter_keys
          /\ Range(built.filter_keys[settings.groupby]) = RequestedPrimary(call.keys)
          /\ Range(settings.conditions) \subseteq Range(condition_values(built.conditions))

C13_Witness ==
    /\ pc = "waiting" /\ call.op = "get_distinct_counts_union"
    /\ call.model = "users_affected_by_group" /\ call.keys = FlatKeys(<<1, 8>>)
    /\ built.groupby = <<>>
    /\ built.filter_keys = ("group_id" :> <<1, 8>>)
    /\ condition_values(built.conditions) = <<events_type_condition>>

----------------------------------------------------------------------------
(* The reshaping steps. *)

(* get_data ran its reshaping steps: on the executor's answer, or on {}     *)
(* when the key set was empty.                                              *)
Reshaped == pc = "done" /\ built # NoBuild /\ error # "BackendExecutionError"
Executed == backendCalls = 1
ReshapeInput == IF Executed THEN response ELSE EmptyMap

(* Every mapping, key and leaf of tree before is in tree after. *)
RECURSIVE Preserved(_, _)
Preserved(before, after) ==
    IF IsGroupMap(before)
    THEN /\ IsGroupMap(after)
         /\ DOMAIN before.map \subseteq DOMAIN after.map
         /\ \A k \in DOMAIN before.map : Preserved(before.map[k], after.map[k])
    ELSE after = before

(* The tree holds every expected key at every level. *)
RECURSIVE Complete(_, _, _)
Complete(tree, groups, flat_keys) ==
    IF groups = <<>> THEN TRUE
    ELSE /\ IsGroupMap(tree)
         /\ Head(groups) \in DOMAIN flat_keys
         /\ Range(flat_keys[Head(groups)]) \subseteq DOMAIN tree.map
         /\ \A k \in DOMAIN tree.map : Complete(tree.map[k], Tail(groups), flat_keys)

(* C14: where zerofill returns, zerofilling its result again changes        *)
(* nothing, zerofilling a complete tree changes nothing, and every key and  *)
(* value of the tree it was given is in its result.                         *)
C14_ZerofillIdempotent ==
    Reshaped
    => LET ga == get_data_args(call)
           flat_keys == time_keys_map(built, ga)
           before == get_data_result(built, ReshapeInput, Executed)
           after == zerofill(before, built.groupby, flat_keys)
       IN ~IsErr(after)
          => /\ zerofill(after, built.groupby, flat_keys) = after
             /\ Preserved(before, after)
             /\ Complete(after, built.groupby, flat_keys)
             /\ Complete(before, built.groupby, flat_keys) => after = before

C14_Witness ==
    /\ Reshaped /\ Executed /\ call.op = "get_data" /\ call.model = "project"
    /\ built.groupby = <<"project_id">> /\ built.keys = FlatKeys(<<1>>)
    /\ response = Map(<< <<1, IntLeaf(5)>> >>)
    /\ zerofill(response, built.groupby, built.filter_keys) = response
    /\ ret = response

IsPrefix(p, q) == Len(p) <= Len(q) /\ \A i \in DOMAIN p : p[i] = q[i]

LateUnnest ==
    IF call.model \in manual_group_on_time_models /\ get_data_args(call).group_on_time
    THEN <<"unnest">> ELSE <<>>

EarlyUnnest ==
    IF Executed /\ model_query_settings[call.model].selected_columns # <<>>
    THEN <<"unnest">> ELSE <<>>

(* C15 as stated: the steps run in the order execute, zerofill, trim,       *)
(* unnest; unnest never runs before zerofill and trim.                      *)
C15_UnnestLast ==
    Reshaped
    => IsPrefix(steps, (IF Executed THEN <<"execute">> ELSE <<>>)
                          \o <<"zerofill", "trim">> \o LateUnnest)

(* C15 amended: the steps run in the order execute, unnest (for a model     *)
(* with selected columns, on the executor's answer), zerofill, trim, unnest *)
(* (for a model grouped on time by hand); a call that does not raise runs   *)
(* them all.                                                                *)
C15_UnnestAfterExecute ==
    Reshaped
    => LET order == (IF Executed THEN <<"execute">> ELSE <<>>) \o EarlyUnnest
                       \o <<"zerofill", "trim">> \o LateUnnest
       IN /\ IsPrefix(steps, order)
          /\ error = "none" => steps = order

C15_Witness ==
    /\ Reshaped /\ Executed /\ call.op = "get_data" /\ call.model = "group_performance"
    /\ response = Map(<< <<1, Row(IntLeaf(5))>> >>)
    /\ steps = <<"execute", "unnest", "zerofill", "trim">>
    /\ ret = Map(<< <<1, IntLeaf(5)>> >>)

(* Every key of a time level of tree before is in tree after, along every   *)
(* branch the two trees share.                                              *)
RECURSIVE TimeLevelKept(_, _, _)
TimeLevelKept(before, after, groups) ==
    IF groups = <<>> \/ ~IsGroupMap(before) \/ ~IsGroupMap(after) THEN TRUE
    ELSE IF IsTimeColumn(Head(groups))
    THEN /\ DOMAIN before.map \subseteq DOMAIN after.map
         /\ \A t \in DOMAIN before.map :
               TimeLevelKept(before.map[t], after.map[t], Tail(groups))
    ELSE \A k \in DOMAIN before.map \cap DOMAIN after.map :
            TimeLevelKept(before.map[k], after.map[k], Tail(groups))

(* C16: trim deletes no key of the time level, be it "time" or "time_t",    *)
(* with a flat or a nested key set: every bucket of the zerofilled tree is  *)
(* in the trimmed tree.                                                     *)
C16_TrimKeepsTimeBuckets ==
    (Reshaped /\ get_data_args(call).group_on_time)
    => LET ga == get_data_args(call)
           zerofilled == get_data_zerofilled(built, ga, ReshapeInput, Executed)
           trimmed == get_data_trimmed(built, ga, ReshapeInput, Executed)
       IN ~IsErr(zerofilled) => TimeLevelKept(zerofilled, trimmed, built.groupby)

(* Below a primary key: every bucket of the series is there, and the        *)
(* secondary level holds exactly the keys in want.                          *)
RECURSIVE SecondaryExact(_, _, _)
SecondaryExact(tree, groups, want) ==
    IF groups = <<>> THEN TRUE
    ELSE /\ IsGroupMap(tree)
         /\ IF IsTimeColumn(Head(groups))
            THEN /\ Range(built.series) \subseteq DOMAIN tree.map
                 /\ \A t \in DOMAIN tree.map :
                       SecondaryExact(tree.map[t], Tail(groups), want)
            ELSE DOMAIN tree.map = want

(* The request has a secondary level below the primary one. *)
HasSecondaryLevel ==
    /\ built.groupby # <<>>
    /\ built.groupby[1] = built.model_group
    /\ built.groupby[Len(built.groupby)] = model_query_settings[call.model].aggregate

(* C17: with a nested key set {p: S_p}, after zerofill and trim the branch  *)
(* of every primary key p holds at its secondary level exactly the keys of  *)
(* S_p, also below a time level.                                            *)
C17_ScopedSecondaryKeys ==
    (Reshaped /\ IsNested(built.keys) /\ HasSecondaryLevel)
    => LET trimmed == get_data_trimmed(built, get_data_args(call), ReshapeInput, Executed)
       IN /\ IsGroupMap(trimmed)
          /\ DOMAIN trimmed.map = DOMAIN built.keys.nested
          /\ \A p \in DOMAIN built.keys.nested :
                SecondaryExact(trimmed.map[p], Tail(built.groupby),
                               {built.keys.nested[p][i] : i \in DOMAIN built.keys.nested[p]})

(* Every row of tree before is its aggregate in tree after; nothing else    *)
(* differs.                                                                 *)
RECURSIVE Unnested(_, _)
Unnested(before, after) ==
    IF IsRow(before) THEN after = before.aggregate.some
    ELSE IF IsGroupMap(before)
    THEN /\ IsGroupMap(after)
         /\ DOMAIN after.map = DOMAIN before.map
         /\ \A k \in DOMAIN before.map : Unnested(before.map[k], after.map[k])
    ELSE after = before

(* C18: unnest puts the aggregate in the place of every row below the root, *)
(* whatever the aggregate is, and changes nothing else: both where get_data *)
(* unnests the executor's answer and where it unnests the trimmed tree.     *)
C18_UnnestEveryRow ==
    (Reshaped /\ Executed)
    => LET ga == get_data_args(call)
           early == get_data_result(built, response, TRUE)
           trimmed == get_data_trimmed(built, ga, response, TRUE)
       IN /\ (EarlyUnnest # <<>> /\ IsGroupMap(response)) => Unnested(response, early)
          /\ (LateUnnest # <<>> /\ IsGroupMap(trimmed))
                => Unnested(trimmed, get_data_finish(built, ga, response, TRUE))

----------------------------------------------------------------------------
(* The request. *)

(* C19: for a model of the outcomes family the request names the raw        *)
(* outcomes dataset exactly when the resolved rollup is 10 seconds, whatever *)
(* rollup the caller asked for; otherwise, and for every other model, it    *)
(* names the dataset of the model's settings.                               *)
C19_RawDatasetAtResolvedRollup ==
    built # NoBuild
    => LET settings == model_query_settings[call.model]
       IN built.dataset =
            (IF settings.dataset = "Outcomes" /\ built.rollup = 10
             THEN "OutcomesRaw" ELSE settings.dataset)

(* The number of primary keys of the call: of a mapping its keys, of the    *)
(* key_total models the distinct keys, of a list its length.                *)
PrimaryKeyCount ==
    IF IsNested(call.keys) \/ call.model \in key_total_models
    THEN Cardinality(RequestedPrimary(call.keys))
    ELSE Len(call.keys.flat)

(* C20: the limit of the request is min(10000, primaryKeyCount *            *)
(* bucketCount), never more than 10000.                                     *)
C20_Limit ==
    built # NoBuild
    => LET product == PrimaryKeyCount * Len(built.series)
       IN /\ built.limit = (IF product < 10000 THEN product ELSE 10000)
          /\ built.limit <= 10000

C20_Witness ==
    /\ pc = "waiting" /\ call.model = "key_total_received"
    /\ call.keys = FlatKeys(<<1, 1>>)
    /\ Len(built.series) > 10000
    /\ built.limit = 10000

(* The secondary keys the caller asked for, over all primary keys. *)
RequestedSecondary(keys) ==
    UNION {{keys.nested[k][i] : i \in DOMAIN keys.nested[k]} : k \in DOMAIN keys.nested}

(* C21: the filter keys of a request bind the model's primary column to the *)
(* primary keys and, when the model has an aggregate column and the key set *)
(* is a mapping, the aggregate column to its secondary keys; environment    *)
(* ids add the binding of "environment" and leave the two others as they    *)
(* are, in the request and in the key lists zerofill is given.              *)
C21_FilterKeyBindings ==
    built # NoBuild
    => LET settings == model_query_settings[call.model]
           filter_keys == built.filter_keys
           flat_keys == time_keys_map(built, get_data_args(call))
       IN /\ settings.groupby \in DOMAIN filter_keys
          /\ Range(filter_keys[settings.groupby]) = RequestedPrimary(call.keys)
          /\ flat_keys[settings.groupby] = filter_keys[settings.groupby]
          /\ (settings.aggregate # NULL /\ IsNested(call.keys))
                => /\ settings.aggregate \in DOMAIN filter_keys
                   /\ Range(filter_keys[settings.aggregate]) = RequestedSecondary(call.keys)
                   /\ flat_keys[settings.aggregate] = filter_keys[settings.aggregate]
          /\ call.environment_id # None
                => /\ "environment" \in DOMAIN filter_keys
                   /\ filter_keys["environment"] = <<call.environment_id.some>>

(* The shift of the buckets of the call. *)
JitterOffset ==
    IF call.jitter_value = None \/ call.op \notin accepts_jitter_value THEN 0
    ELSE call.jitter_value.some % built.rollup

(* C22: the range of a request starts at the first bucket of the series,    *)
(* jittered or not, and ends at the start of the last bucket plus the       *)
(* resolved rollup, whatever start and end the caller gave: it is the whole *)
(* of every bucket.                                                         *)
C22_RangeCoversLastBucket ==
    built # NoBuild
    => LET n == Len(built.series)
           first == (call.start - (call.start % built.rollup)) + JitterOffset
       IN /\ built.series[1] = first
          /\ built.start = first
          /\ built.end = built.series[n] + built.rollup
          /\ built.end = first + n * built.rollup
          /\ built.end >= call.end

C22_Witness ==
    /\ pc = "waiting" /\ call.op = "get_range"
    /\ call.start = 5 /\ call.end = 15 /\ call.jitter_value = Some(13)
    /\ built.rollup = 10 /\ built.series = <<3, 13>>
    /\ built.start = 3 /\ built.end = 23

(* C23: get_data leaves the list of conditions the caller passed as it was: *)
(* when get_data has built its request, and before the executor has had the *)
(* list, the caller's list holds the conditions the caller put in it.       *)
C23_CallerConditionsUnchanged ==
    (call # NoCall /\ call.conditions # None
     /\ (pc = "waiting" \/ (pc = "done" /\ backendCalls = 0)))
    => callerConditions = call.conditions

====
